---- MODULE Spec2Model ----
(***************************************************************************)
(* A model of the CDP network crawler: the inventory store (data.py), the  *)
(* hostname normalisation and platform classification (devices.py), the    *)
(* device session (connect.py) and the worker pool with its Frontier       *)
(* (crawler.py), driven by the entry point (main.py).                      *)
(*                                                                         *)
(* Python strings are sequences of one-character strings, so that          *)
(* split/strip/lower and substring tests are computed and not assumed.     *)
(***************************************************************************)
EXTENDS Naturals, Integers, Sequences, FiniteSets, TLC

(***************************************************************************)
(* Bounds of the model.                                                    *)
(***************************************************************************)
\* the largest worker count start(n) is called with
MaxWorkers == 2

(***************************************************************************)
(* Strings.                                                                *)
(***************************************************************************)
EmptyStr == <<>>

\* Python's None, kept apart from every string (no string holds this token)
None == <<"None">>

Truthy(s) == s # EmptyStr /\ s # None

UpperToLower ==
  [A |-> "a", B |-> "b", C |-> "c", D |-> "d", E |-> "e", F |-> "f", G |-> "g",
   H |-> "h", I |-> "i", J |-> "j", K |-> "k", L |-> "l", M |-> "m", N |-> "n",
   O |-> "o", P |-> "p", Q |-> "q", R |-> "r", S |-> "s", T |-> "t", U |-> "u",
   V |-> "v", W |-> "w", X |-> "x", Y |-> "y", Z |-> "z"]

LowerChar(c) == IF c \in DOMAIN UpperToLower THEN UpperToLower[c] ELSE c

\* str.lower()
Lower(s) == [i \in 1..Len(s) |-> LowerChar(s[i])]

IsSpace(c) == c \in {" ", "\t", "\n"}

\* the index of the first occurrence of character c in s, or 0
IndexOf(s, c) ==
  IF \E i \in 1..Len(s) : s[i] = c
  THEN CHOOSE i \in 1..Len(s) : s[i] = c /\ \A j \in 1..(i-1) : s[j] # c
  ELSE 0

\* s.split(c)[0]
SplitFirst(s, c) ==
  IF IndexOf(s, c) = 0 THEN s ELSE SubSeq(s, 1, IndexOf(s, c) - 1)

\* str.strip()
Strip(s) ==
  IF \A i \in 1..Len(s) : IsSpace(s[i])
  THEN EmptyStr
  ELSE LET lo == CHOOSE i \in 1..Len(s) :
                   ~IsSpace(s[i]) /\ \A j \in 1..(i-1) : IsSpace(s[j])
           hi == CHOOSE i \in 1..Len(s) :
                   ~IsSpace(s[i]) /\ \A j \in (i+1)..Len(s) : IsSpace(s[j])
       IN  SubSeq(s, lo, hi)

\* pat occurs in s at index i
MatchAt(s, pat, i) ==
  /\ i >= 1
  /\ i + Len(pat) - 1 <= Len(s)
  /\ \A k \in 1..Len(pat) : s[i + k - 1] = pat[k]

\* Python's `pat in s`
Contains(s, pat) == \E i \in 1..(Len(s) + 1) : MatchAt(s, pat, i)

SerialOpen == <<"(", "S", "e", "r", "i", "a", "l", ":">>

\* re.sub(r'\s*\(Serial:.*\)', '', s): the leftmost match starts at the
\* whitespace run before the first "(Serial:" and, .* being greedy, ends at
\* the last ")" of the string; nothing after it can match again.
StripSerial(s) ==
  LET opens  == {i \in 1..Len(s) : MatchAt(s, SerialOpen, i)}
      closes == {j \in 1..Len(s) : s[j] = ")"}
  IN  IF opens = {} THEN s
      ELSE LET p == CHOOSE i \in opens : \A k \in opens : i <= k
               after == {j \in closes : j >= p + Len(SerialOpen)}
           IN  IF after = {} THEN s
               ELSE LET q  == CHOOSE j \in after : \A k \in after : k <= j
                        st == CHOOSE i \in 1..p :
                                /\ \A k \in i..(p-1) : IsSpace(s[k])
                                /\ (i = 1 \/ ~IsSpace(s[i-1]))
                    IN  SubSeq(s, 1, st - 1) \o SubSeq(s, q + 1, Len(s))

\* a normalization that trims before it removes the serial annotation
normalize_hostname_trims_first(hostname) ==
  Lower(StripSerial(Strip(SplitFirst(hostname, "."))))

\* NetworkDevice._normalize_hostname
normalize_hostname(hostname) ==
  Lower(Strip(StripSerial(SplitFirst(hostname, "."))))

(***************************************************************************)
(* Configuration (config.yaml, read at import) and device types.           *)
(***************************************************************************)
\* config['filtering']['exclude_platforms']
exclude_platforms == << <<"L", "i", "n", "u", "x">> >>

\* config['filtering']['include_platforms']
include_platforms == << <<"c", "a", "t">>, <<"C", "9">> >>

T_excluded   == <<"e", "x", "c", "l", "u", "d", "e", "d">>
T_unknown    == <<"u", "n", "k", "n", "o", "w", "n">>
T_cisco_nxos == <<"c", "i", "s", "c", "o", "_", "n", "x", "o", "s">>
T_cisco_xe   == <<"c", "i", "s", "c", "o", "_", "x", "e">>
T_cisco_ios  == <<"c", "i", "s", "c", "o", "_", "i", "o", "s">>

\* a classification that returns the include pattern in lower case
determine_device_type_lowercased(platform) ==
  LET pl == Lower(platform)
      ex == {i \in 1..Len(exclude_platforms) : Contains(pl, Lower(exclude_platforms[i]))}
      inc == {i \in 1..Len(include_platforms) : Contains(pl, Lower(include_platforms[i]))}
  IN  IF ex # {} THEN T_excluded
      ELSE IF Contains(pl, <<"n", "x", "-", "o", "s">>) \/ Contains(pl, <<"n", "e", "x", "u", "s">>) THEN T_cisco_nxos
      ELSE IF Contains(pl, <<"i", "o", "s", "-", "x", "e">>) \/ Contains(pl, <<"i", "o", "s", " ", "x", "e">>) THEN T_cisco_xe
      ELSE IF Contains(pl, <<"i", "o", "s">>) THEN T_cisco_ios
      ELSE IF inc # {}
           THEN Lower(include_platforms[CHOOSE i \in inc : \A k \in inc : i <= k])
      ELSE T_unknown

\* NetworkDevice._determine_device_type, as a function of self.platform
determine_device_type(platform) ==
  LET pl == Lower(platform)
      ex == {i \in 1..Len(exclude_platforms) : Contains(pl, Lower(exclude_platforms[i]))}
      inc == {i \in 1..Len(include_platforms) : Contains(pl, Lower(include_platforms[i]))}
  IN  IF ex # {} THEN T_excluded
      ELSE IF Contains(pl, <<"n", "x", "-", "o", "s">>) \/ Contains(pl, <<"n", "e", "x", "u", "s">>) THEN T_cisco_nxos
      ELSE IF Contains(pl, <<"i", "o", "s", "-", "x", "e">>) \/ Contains(pl, <<"i", "o", "s", " ", "x", "e">>) THEN T_cisco_xe
      ELSE IF Contains(pl, <<"i", "o", "s">>) THEN T_cisco_ios
      ELSE IF inc # {}
           THEN include_platforms[CHOOSE i \in inc : \A k \in inc : i <= k]
      ELSE T_unknown

\* NetworkDevice.is_infrastructure_device
is_infrastructure_device(device_type) ==
  device_type # T_excluded /\ device_type # T_unknown

(***************************************************************************)
(* The inventory store (data.py): two tables, each a set of rows.  Every   *)
(* operation is one committed transaction.                                 *)
(***************************************************************************)
\* a Queue row as add_to_queue creates it (both flags default to False)
QueueRow(hostname, ip_address) ==
  [hostname |-> hostname, ip_address |-> ip_address,
   is_processing |-> FALSE, is_processed |-> FALSE]

\* the UNIQUE constraints of a table on hostname and on ip_address
UniqueViolation(table, hostname, ip_address) ==
  \E r \in table : r.hostname = hostname \/ r.ip_address = ip_address

\* DatabaseManager.device_exists
device_exists(devs, q, hostname, ip_address) ==
  \/ /\ Truthy(hostname)
     /\ \/ \E d \in devs : d.hostname = hostname
        \/ \E r \in q : r.hostname = hostname
  \/ /\ Truthy(ip_address)
     /\ \/ \E d \in devs : d.ip_address = ip_address
        \/ \E r \in q : r.ip_address = ip_address

\* add_device without the UNIQUE constraints of the Devices table
add_device_raises_never(devs, data) == FALSE

\* DatabaseManager.add_device: the commit raises IntegrityError on a
\* UNIQUE violation
add_device_raises(devs, data) ==
  UniqueViolation(devs, data.hostname, data.ip_address)

\* DatabaseManager.add_device: the table after the call (as it was when
\* the commit raises)
add_device(devs, data) ==
  IF add_device_raises(devs, data) THEN devs ELSE devs \cup {data}

\* add_to_queue whose row never reaches the table
add_to_queue_lost(q, hostname, ip_address) == q

\* a Queue table without its UNIQUE constraints
add_to_queue_raises_never(q, hostname, ip_address) == FALSE

\* DatabaseManager.add_to_queue: the commit raises IntegrityError
add_to_queue_raises(q, hostname, ip_address) ==
  UniqueViolation(q, hostname, ip_address)

\* DatabaseManager.add_to_queue: the table after the call
add_to_queue(q, hostname, ip_address) ==
  IF add_to_queue_raises(q, hostname, ip_address) THEN q
  ELSE q \cup {QueueRow(hostname, ip_address)}

\* DatabaseManager.mark_processing
mark_processing(q, hostname) ==
  {IF r.hostname = hostname THEN [r EXCEPT !.is_processing = TRUE] ELSE r : r \in q}

\* mark_processed that forgets to clear is_processing
mark_processed_keeps_processing(q, hostname) ==
  {IF r.hostname = hostname THEN [r EXCEPT !.is_processed = TRUE] ELSE r : r \in q}

\* DatabaseManager.mark_processed
mark_processed(q, hostname) ==
  {IF r.hostname = hostname
   THEN [r EXCEPT !.is_processed = TRUE, !.is_processing = FALSE]
   ELSE r : r \in q}

(***************************************************************************)
(* Devices (devices.py) and the device session (connect.py).               *)
(***************************************************************************)
\* the empty dict / parse result with no data
EmptyDict == [empty |-> TRUE]

\* dict.get(key, '') on a parse result
DictGet(data, key) == IF key \in DOMAIN data THEN data[key] ELSE EmptyStr

\* NetworkDevice.__init__
NetworkDevice(hostname, ip_address) ==
  [hostname |-> normalize_hostname(hostname), ip_address |-> ip_address,
   platform |-> None, serial_number |-> None, device_type |-> None,
   has_cdp |-> FALSE, cdp_neighbors |-> <<>>]

\* NetworkDevice.to_dict
to_dict(dev) ==
  [hostname |-> dev.hostname, ip_address |-> dev.ip_address,
   platform |-> dev.platform, serial_number |-> dev.serial_number,
   device_type |-> dev.device_type]

\* NetworkDevice.update_from_show_version
update_from_show_version(dev, data) ==
  [dev EXCEPT !.platform = DictGet(data, "platform"),
              !.device_type = determine_device_type(DictGet(data, "platform"))]

\* NetworkDevice.update_from_show_inventory
update_from_show_inventory(dev, data) ==
  [dev EXCEPT !.serial_number = DictGet(data, "serial_number")]

\* NetworkDevice.update_from_cdp_neighbors
update_from_cdp_neighbors(dev, data) ==
  [dev EXCEPT !.has_cdp = TRUE, !.cdp_neighbors = data]

RECURSIVE FilterNeighbors(_)
\* the loop of NetworkDevice.get_cdp_neighbors over raw_data['cdp_neighbors']
FilterNeighbors(rows) ==
  IF rows = <<>> THEN <<>>
  ELSE LET n == Head(rows)
           keep == /\ Truthy(n.ip_address)
                   /\ is_infrastructure_device(determine_device_type(n.platform))
       IN  (IF keep
            THEN << <<normalize_hostname(n.hostname), n.ip_address>> >>
            ELSE <<>>) \o FilterNeighbors(Tail(rows))

\* NetworkDevice.get_cdp_neighbors: the (hostname, ip) pairs to admit
get_cdp_neighbors(dev) ==
  IF ~dev.has_cdp THEN <<>> ELSE FilterNeighbors(dev.cdp_neighbors)

\* DeviceConnection._load_template reads self.device.platform.lower():
\* it raises AttributeError while platform is still None, and otherwise
\* raises when the template file cannot be opened (env.templates = FALSE)
load_template_raises(dev, env) == dev.platform = None \/ ~env.templates

\* DeviceConnection._parse_show_version: every exception gives {}
parse_show_version(dev, env) ==
  IF load_template_raises(dev, env) THEN EmptyDict ELSE env.version_rec

\* DeviceConnection._parse_show_inventory
parse_show_inventory(dev, env) ==
  IF load_template_raises(dev, env) THEN EmptyDict ELSE env.inventory_rec

RECURSIVE CleanCdp(_)
\* the loop of _parse_cdp_neighbors over the template's records
CleanCdp(rows) ==
  IF rows = <<>> THEN <<>>
  ELSE LET r == Head(rows)
       IN  (IF Truthy(r.MANAGEMENT_IP)
            THEN << [hostname |-> Strip(SplitFirst(SplitFirst(r.DEVICE_ID, "."), "(")),
                     platform |-> r.PLATFORM,
                     ip_address |-> r.MANAGEMENT_IP] >>
            ELSE <<>>) \o CleanCdp(Tail(rows))

\* DeviceConnection._parse_cdp_neighbors
parse_cdp_neighbors(dev, env) ==
  IF load_template_raises(dev, env) THEN <<>> ELSE CleanCdp(env.cdp_rows)

\* process_device lines 139-146: a device without an IP adopts the IP of
\* the first neighbor that carries its own hostname
AdoptIp(dev, cdp_data) ==
  LET same == {i \in 1..Len(cdp_data) : Lower(cdp_data[i].hostname) = Lower(dev.hostname)}
  IN  IF ~Truthy(dev.ip_address) /\ same # {}
      THEN [dev EXCEPT !.ip_address =
              cdp_data[CHOOSE i \in same : \A k \in same : i <= k].ip_address]
      ELSE dev

\* process_device lines 120-125: the device type the transport is set to
\* after `show version`, as a function of self.device.platform
transport_device_type(platform) ==
  IF Contains(Lower(platform), <<"n", "x", "-", "o", "s">>) THEN T_cisco_nxos
  ELSE IF Contains(Lower(platform), <<"i", "o", "s", "x", "e">>) THEN T_cisco_xe
  ELSE T_cisco_ios

\* a process_device that returns False without `show cdp neighbors detail`
\* output
process_device_needs_cdp(dev, env) ==
  IF ~env.connect THEN [ok |-> FALSE, device |-> dev]
  ELSE IF ~Truthy(env.version_output) THEN [ok |-> FALSE, device |-> dev]
  ELSE LET d1 == update_from_show_version(dev, parse_show_version(dev, env))
           d2 == IF Truthy(env.inventory_output)
                 THEN update_from_show_inventory(d1, parse_show_inventory(d1, env))
                 ELSE d1
           cdp == parse_cdp_neighbors(d2, env)
           d3 == IF Truthy(env.cdp_output)
                 THEN AdoptIp(update_from_cdp_neighbors(d2, cdp), cdp)
                 ELSE d2
       IN  [ok |-> Truthy(env.cdp_output), device |-> d3]

\* DeviceConnection.process_device against a device that behaves as env
\* says: the pair of its return value and the device object afterwards
process_device(dev, env) ==
  IF ~env.connect THEN [ok |-> FALSE, device |-> dev]
  ELSE IF ~Truthy(env.version_output) THEN [ok |-> FALSE, device |-> dev]
  ELSE LET d1 == update_from_show_version(dev, parse_show_version(dev, env))
           d2 == IF Truthy(env.inventory_output)
                 THEN update_from_show_inventory(d1, parse_show_inventory(d1, env))
                 ELSE d1
           cdp == parse_cdp_neighbors(d2, env)
           d3 == IF Truthy(env.cdp_output)
                 THEN AdoptIp(update_from_cdp_neighbors(d2, cdp), cdp)
                 ELSE d2
       IN  [ok |-> TRUE, device |-> d3]

(***************************************************************************)
(* The network the crawler is run against.  Hosts are named by their       *)
(* normalized hostname; the host with the empty name stands for a seed     *)
(* given as --seed-hostname "" --seed-ip "".                               *)
(***************************************************************************)
H_empty == EmptyStr
H_a == <<"a">>
H_b == <<"b">>
H_c == <<"c">>
AllHosts == {H_empty, H_a, H_b, H_c}

IP_empty == EmptyStr
IP_1 == <<"1">>
IP_2 == <<"2">>
IP_3 == <<"3">>
IP_5 == <<"5">>

P_IOS   == <<"C", "i", "s", "c", "o", " ", "I", "O", "S">>
P_NXOS  == <<"N", "X", "-", "O", "S">>
P_Linux == <<"L", "i", "n", "u", "x">>

SomeOutput == <<"o", "k">>
Serial_1 == <<"S", "1">>

CdpRow(id, platform, ip) ==
  [DEVICE_ID |-> id, PLATFORM |-> platform, MANAGEMENT_IP |-> ip]

\* what `show cdp neighbors detail` parses to on each host: the chain
\* a -> b -> c with c listing a again, and the empty-named host seeing b
\* (by its FQDN), a Linux box, and c once without and once with an IP
CdpOf(h) ==
  CASE h = H_a -> << CdpRow(<<"B", ".", "x">>, P_IOS, IP_2) >>
    [] h = H_b -> << CdpRow(H_c, P_NXOS, IP_3) >>
    [] h = H_c -> << CdpRow(H_a, P_IOS, IP_1) >>
    [] OTHER   -> << CdpRow(<<"B", ".", "x">>, P_IOS, IP_2),
                     CdpRow(<<"p">>, P_Linux, IP_5),
                     CdpRow(H_c, P_NXOS, IP_empty),
                     CdpRow(H_c, P_NXOS, IP_3) >>

\* a `show cdp neighbors detail` with two neighbors whose device id is
\* nothing but a serial number in parentheses, ahead of c
CdpBlank ==
  << CdpRow(<<"(", "S", ")">>, P_IOS, IP_5),
     CdpRow(<<"(", "T", ")">>, P_IOS, IP_1),
     CdpRow(H_c, P_NXOS, IP_3) >>

PlatformOf(h) == IF h = H_c THEN P_NXOS ELSE P_IOS

IpOf(h) ==
  CASE h = H_a -> IP_1 [] h = H_b -> IP_2 [] h = H_c -> IP_3 [] OTHER -> IP_empty

\* the ways host h can answer one Session: refuse every connection attempt,
\* give no `show version` output, or answer all three commands (with the
\* template files present or not, with or without CDP output, or with the
\* neighbors of CdpBlank).  The
\* transport (ConnectHandler) and the template files are not part of the
\* repository: what they do is chosen freely here, for every host name.
Behaviours(h) ==
  LET full == [connect |-> TRUE, version_output |-> SomeOutput, templates |-> TRUE,
               version_rec |-> [platform |-> PlatformOf(h)],
               inventory_output |-> SomeOutput,
               inventory_rec |-> [serial_number |-> Serial_1],
               cdp_output |-> SomeOutput, cdp_rows |-> CdpOf(h)]
  IN  { [full EXCEPT !.connect = FALSE],
        [full EXCEPT !.version_output = None],
        full,
        [full EXCEPT !.templates = FALSE],
        [full EXCEPT !.cdp_output = EmptyStr, !.inventory_output = None],
        [full EXCEPT !.cdp_rows = CdpBlank] }

\* the seeds the operator may pass to add_seed_device
SeedInputs == { <<H_empty, IP_empty>>, <<H_a, IP_1>>, <<<<"A", ".", "x">>, IP_1>> }

\* the infrastructure neighbors a host reports with a management IP
InfraNeighbors(h) ==
  {normalize_hostname(CdpOf(h)[i].DEVICE_ID) : i \in
     {j \in 1..Len(CdpOf(h)) :
        /\ Truthy(CdpOf(h)[j].MANAGEMENT_IP)
        /\ is_infrastructure_device(determine_device_type(CdpOf(h)[j].PLATFORM))}}

RECURSIVE ReachFrom(_, _)
ReachFrom(S, n) ==
  IF n = 0 THEN S
  ELSE ReachFrom(S \cup UNION {InfraNeighbors(h) : h \in S}, n - 1)

\* the infrastructure devices reachable from a seed hostname, seed included
Reachable(seed_host) ==
  ReachFrom({normalize_hostname(seed_host)}, Cardinality(AllHosts))

(***************************************************************************)
(* The crawler (crawler.py) and its entry point (main.py).                 *)
(***************************************************************************)
\* how often stop() is called in one run
MaxStopCalls == 2

VARIABLES
  devices,           \* the Devices table
  queue_tbl,         \* the Queue table
  work_queue,        \* self.work_queue: the items of the Frontier, in order
  unfinished_tasks,  \* the Frontier's count of unfinished tasks
  stop_event,        \* self.stop_event
  stats,             \* self.stats
  pc,                \* where each worker thread is
  item,              \* each worker's (hostname, ip_address)
  device,            \* each worker's NetworkDevice
  session_ok,        \* what process_device returned to each worker
  neighbors,         \* the rest of each worker's loop over get_cdp_neighbors()
  mainpc,            \* where main() is
  stop_calls,        \* the calls of stop() that have returned
  seed,              \* the seed given to add_seed_device
  conn,              \* each worker's DeviceConnection object
  sessions,          \* history: the Sessions run, per device hostname
  put_log            \* history: every pair ever put on the Frontier

vars == <<devices, queue_tbl, work_queue, unfinished_tasks, stop_event, stats,
          pc, item, device, session_ok, neighbors, mainpc, stop_calls, seed,
          conn, sessions, put_log>>

Workers == 1..MaxWorkers

NoItem == <<None, None>>
NoDevice == [hostname |-> None, ip_address |-> None, platform |-> None,
             serial_number |-> None, device_type |-> None,
             has_cdp |-> FALSE, cdp_neighbors |-> <<>>]

\* DeviceConnection.__init__: no transport connection yet.  `connection` is
\* "none", "open" or "closed"; `device_type` is the device type the
\* transport works with; `attempt` is the loop variable of connect(); `log`
\* is the history of what the object asked of the transport.
NoConnection == [connection |-> "none", device_type |-> None, attempt |-> 0,
                 log |-> <<>>]

\* NetworkCrawler._update_stats
update_stats(st, device_processed, device_discovered, active_device, remove_active) ==
  [devices_processed |-> st.devices_processed + (IF device_processed THEN 1 ELSE 0),
   devices_discovered |-> st.devices_discovered + (IF device_discovered THEN 1 ELSE 0),
   active_devices |->
     IF Truthy(active_device)
     THEN IF remove_active THEN st.active_devices \ {active_device}
          ELSE st.active_devices \cup {active_device}
     ELSE st.active_devices]

\* NetworkCrawler.__init__ with a fresh database file.  Store operations
\* raise only on a UNIQUE violation; I/O errors of the database file are
\* left out.
Init ==
  /\ devices = {}
  /\ queue_tbl = {}
  /\ work_queue = <<>>
  /\ unfinished_tasks = 0
  /\ stop_event = FALSE
  /\ stats = [devices_processed |-> 0, devices_discovered |-> 0, active_devices |-> {}]
  /\ pc = [w \in Workers |-> "unstarted"]
  /\ item = [w \in Workers |-> NoItem]
  /\ device = [w \in Workers |-> NoDevice]
  /\ session_ok = [w \in Workers |-> FALSE]
  /\ neighbors = [w \in Workers |-> <<>>]
  /\ mainpc = "seed"
  /\ stop_calls = 0
  /\ seed = NoItem
  /\ conn = [w \in Workers |-> NoConnection]
  /\ sessions = [h \in AllHosts |-> 0]
  /\ put_log = {}

workerVars == <<pc, item, device, session_ok, neighbors, conn>>
storeVars == <<devices, queue_tbl>>
frontierVars == <<work_queue, unfinished_tasks>>
mainVars == <<mainpc, stop_calls, seed>>

\* queue.Queue.put
QueuePut(x) ==
  /\ work_queue' = Append(work_queue, x)
  /\ unfinished_tasks' = unfinished_tasks + 1
  /\ put_log' = put_log \cup {x}

\* queue.Queue.task_done raises ValueError when called too many times
task_done_raises == unfinished_tasks = 0

----------------------------------------------------------------------------
(* main.py *)

\* NetworkCrawler.add_seed_device(s); main() goes on at next_pc when it returns
add_seed_device(s, next_pc) ==
  IF device_exists(devices, queue_tbl, s[1], s[2])
  THEN /\ mainpc' = next_pc
       /\ UNCHANGED <<queue_tbl, frontierVars, put_log, stats>>
  ELSE IF add_to_queue_raises(queue_tbl, s[1], s[2])
  THEN /\ mainpc' = "failed"
       /\ UNCHANGED <<queue_tbl, frontierVars, put_log, stats>>
  ELSE /\ queue_tbl' = add_to_queue(queue_tbl, s[1], s[2])
       /\ QueuePut(s)
       /\ stats' = update_stats(stats, FALSE, TRUE, None, FALSE)
       /\ mainpc' = next_pc

\* main(): add_seed_device is called once, before start()
AddSeedDevice ==
  /\ mainpc = "seed"
  /\ \E s \in SeedInputs :
       /\ seed' = s
       /\ add_seed_device(s, "start")
  /\ UNCHANGED <<devices, stop_event, workerVars, stop_calls, sessions>>

\* NetworkCrawler.start(n)
Start ==
  /\ mainpc = "start"
  /\ \E n \in 1..MaxWorkers :
       pc' = [w \in Workers |-> IF w <= n THEN "loop" ELSE pc[w]]
  /\ mainpc' = "wait"
  /\ UNCHANGED <<storeVars, frontierVars, stop_event, stats, item, device,
                 session_ok, neighbors, stop_calls, seed, sessions, put_log,
                 conn>>

\* NetworkCrawler.wait_for_completion: work_queue.join() returns
WaitForCompletion ==
  /\ mainpc = "wait"
  /\ unfinished_tasks = 0
  /\ mainpc' = "export"
  /\ UNCHANGED <<storeVars, frontierVars, stop_event, stats, workerVars,
                 stop_calls, seed, sessions, put_log>>

\* KeyboardInterrupt while main() waits
Interrupt ==
  /\ mainpc = "wait"
  /\ mainpc' = "stop"
  /\ UNCHANGED <<storeVars, frontierVars, stop_event, stats, workerVars,
                 stop_calls, seed, sessions, put_log>>

\* NetworkCrawler.export_inventory; main()'s finally then calls stop()
ExportInventory ==
  /\ mainpc = "export"
  /\ mainpc' = "stop"
  /\ UNCHANGED <<storeVars, frontierVars, stop_event, stats, workerVars,
                 stop_calls, seed, sessions, put_log>>

\* NetworkCrawler.stop: set the stop signal (a first or a repeated call)
Stop ==
  /\ \/ mainpc = "stop"
     \/ mainpc = "done" /\ stop_calls < MaxStopCalls
  /\ stop_event' = TRUE
  /\ mainpc' = "join"
  /\ UNCHANGED <<storeVars, frontierVars, stats, workerVars, stop_calls, seed,
                 sessions, put_log>>

Terminated(w) == pc[w] \in {"unstarted", "exited", "dead"}

\* NetworkCrawler.stop: every thread.join() has returned
StopJoin ==
  /\ mainpc = "join"
  /\ \A w \in Workers : Terminated(w)
  /\ mainpc' = "done"
  /\ stop_calls' = stop_calls + 1
  /\ UNCHANGED <<storeVars, frontierVars, stop_event, stats, workerVars, seed,
                 sessions, put_log>>
----------------------------------------------------------------------------
(* NetworkCrawler.worker, one action per step that other threads can see *)

Goto(w, label) == pc' = [pc EXCEPT ![w] = label]

\* the locals of a worker once its iteration is over
ClearLocals(w) ==
  /\ item' = [item EXCEPT ![w] = NoItem]
  /\ device' = [device EXCEPT ![w] = NoDevice]
  /\ session_ok' = [session_ok EXCEPT ![w] = FALSE]
  /\ neighbors' = [neighbors EXCEPT ![w] = <<>>]

\* a loop condition that does not look at the stop signal
LoopCheck_IgnoresStop(w) ==
  /\ pc[w] = "loop"
  /\ Goto(w, "get")
  /\ UNCHANGED <<storeVars, frontierVars, stop_event, stats, item, device,
                 session_ok, neighbors, mainVars, sessions, put_log, conn>>

\* line 89: while not self.stop_event.is_set()
LoopCheck(w) ==
  /\ pc[w] = "loop"
  /\ Goto(w, IF stop_event THEN "exited" ELSE "get")
  /\ UNCHANGED <<storeVars, frontierVars, stop_event, stats, item, device,
                 session_ok, neighbors, mainVars, sessions, put_log, conn>>

\* line 91: work_queue.get(timeout=...) returns the head of the Frontier
Get(w) ==
  /\ pc[w] = "get"
  /\ work_queue # <<>>
  /\ item' = [item EXCEPT ![w] = Head(work_queue)]
  /\ work_queue' = Tail(work_queue)
  /\ Goto(w, "check")
  /\ UNCHANGED <<storeVars, unfinished_tasks, stop_event, stats, device,
                 session_ok, neighbors, mainVars, sessions, put_log, conn>>

\* line 91 times out: queue.Empty, `continue` at line 126, and the finally
\* clause of line 129 still runs
GetTimeout(w) ==
  /\ pc[w] = "get"
  /\ work_queue = <<>>
  /\ Goto(w, "finally")
  /\ UNCHANGED <<storeVars, frontierVars, stop_event, stats, item, device,
                 session_ok, neighbors, mainVars, sessions, put_log, conn>>

\* line 94: if self.db.device_exists(session, hostname, ip_address)
CheckExists(w) ==
  /\ pc[w] = "check"
  /\ Goto(w, IF device_exists(devices, queue_tbl, item[w][1], item[w][2])
             THEN "discard" ELSE "mark")
  /\ UNCHANGED <<storeVars, frontierVars, stop_event, stats, item, device,
                 session_ok, neighbors, mainVars, sessions, put_log, conn>>

\* lines 95-96: task_done() and `continue`; a ValueError of task_done is
\* caught at line 127; either way the finally clause comes next
DiscardAck(w) ==
  /\ pc[w] = "discard"
  /\ unfinished_tasks' = IF task_done_raises THEN unfinished_tasks
                         ELSE unfinished_tasks - 1
  /\ Goto(w, "finally")
  /\ UNCHANGED <<storeVars, work_queue, stop_event, stats, item, device,
                 session_ok, neighbors, mainVars, sessions, put_log, conn>>

\* lines 99-100: mark_processing and the stats update
MarkProcessing(w) ==
  /\ pc[w] = "mark"
  /\ queue_tbl' = mark_processing(queue_tbl, item[w][1])
  /\ stats' = update_stats(stats, FALSE, FALSE, item[w][1], FALSE)
  /\ Goto(w, "session")
  /\ UNCHANGED <<devices, frontierVars, stop_event, item, device, session_ok,
                 neighbors, mainVars, sessions, put_log, conn>>

\* lines 103-106: the Session, against any behaviour of the host
ProcessDevice(w) ==
  /\ pc[w] = "session"
  /\ LET dev == NetworkDevice(item[w][1], item[w][2])
     IN  /\ dev.hostname \in AllHosts
         /\ sessions' = [sessions EXCEPT ![dev.hostname] = @ + 1]
         /\ \E env \in Behaviours(dev.hostname) :
              LET r == process_device(dev, env)
              IN  /\ device' = [device EXCEPT ![w] = r.device]
                  /\ session_ok' = [session_ok EXCEPT ![w] = r.ok]
                  /\ Goto(w, IF r.ok THEN "save" ELSE "processed")
  /\ UNCHANGED <<storeVars, frontierVars, stop_event, stats, item, neighbors,
                 mainVars, put_log, conn>>

\* lines 108-112: add_device, the stats update and the call of
\* get_cdp_neighbors(); an IntegrityError goes to line 127
SaveDevice(w) ==
  /\ pc[w] = "save"
  /\ IF add_device_raises(devices, to_dict(device[w]))
     THEN /\ Goto(w, "finally")
          /\ UNCHANGED <<devices, stats, neighbors>>
     ELSE /\ devices' = add_device(devices, to_dict(device[w]))
          /\ stats' = update_stats(stats, TRUE, FALSE, None, FALSE)
          /\ neighbors' = [neighbors EXCEPT ![w] = get_cdp_neighbors(device[w])]
          /\ Goto(w, "nbr")
  /\ UNCHANGED <<queue_tbl, frontierVars, stop_event, item, device, session_ok,
                 mainVars, sessions, put_log, conn>>

\* lines 112-113: the next neighbor and its device_exists test
NeighborCheck(w) ==
  /\ pc[w] = "nbr"
  /\ IF neighbors[w] = <<>>
     THEN Goto(w, "processed") /\ UNCHANGED neighbors
     ELSE IF device_exists(devices, queue_tbl, Head(neighbors[w])[1], Head(neighbors[w])[2])
     THEN /\ neighbors' = [neighbors EXCEPT ![w] = Tail(@)]
          /\ UNCHANGED pc
     ELSE Goto(w, "admit") /\ UNCHANGED neighbors
  /\ UNCHANGED <<storeVars, frontierVars, stop_event, stats, item, device,
                 session_ok, mainVars, sessions, put_log, conn>>

\* line 114: add_to_queue; an IntegrityError goes to line 127
NeighborAdmit(w) ==
  /\ pc[w] = "admit"
  /\ LET n == Head(neighbors[w])
     IN  IF add_to_queue_raises(queue_tbl, n[1], n[2])
         THEN Goto(w, "finally") /\ UNCHANGED queue_tbl
         ELSE /\ queue_tbl' = add_to_queue(queue_tbl, n[1], n[2])
              /\ Goto(w, "put")
  /\ UNCHANGED <<devices, frontierVars, stop_event, stats, item, device,
                 session_ok, neighbors, mainVars, sessions, put_log, conn>>

\* lines 115-116: put on the Frontier and the stats update
NeighborPut(w) ==
  /\ pc[w] = "put"
  /\ QueuePut(Head(neighbors[w]))
  /\ stats' = update_stats(stats, FALSE, TRUE, None, FALSE)
  /\ neighbors' = [neighbors EXCEPT ![w] = Tail(@)]
  /\ Goto(w, "nbr")
  /\ UNCHANGED <<storeVars, stop_event, item, device, session_ok, mainVars,
                 sessions, conn>>

\* lines 119-123: mark_processed, the stats update and the report
MarkProcessed(w) ==
  /\ pc[w] = "processed"
  /\ queue_tbl' = mark_processed(queue_tbl, item[w][1])
  /\ stats' = update_stats(stats, FALSE, FALSE, item[w][1], TRUE)
  /\ Goto(w, "finally")
  /\ UNCHANGED <<devices, frontierVars, stop_event, item, device, session_ok,
                 neighbors, mainVars, sessions, put_log, conn>>

\* a worker loop without the task_done() of its finally clause
Finally_NoAck(w) ==
  /\ pc[w] = "finally"
  /\ Goto(w, "loop")
  /\ ClearLocals(w)
  /\ UNCHANGED <<storeVars, frontierVars, stop_event, stats, mainVars, sessions,
                 put_log, conn>>

\* lines 129-130: finally: task_done(); its ValueError is raised outside
\* every except clause, ends the while loop and with it the thread
Finally(w) ==
  /\ pc[w] = "finally"
  /\ IF task_done_raises
     THEN Goto(w, "dead") /\ UNCHANGED unfinished_tasks
     ELSE /\ unfinished_tasks' = unfinished_tasks - 1
          /\ Goto(w, "loop")
  /\ ClearLocals(w)
  /\ UNCHANGED <<storeVars, work_queue, stop_event, stats, mainVars, sessions,
                 put_log, conn>>

WorkerStep(w) ==
  \/ LoopCheck(w)
  \/ Get(w)
  \/ GetTimeout(w)
  \/ CheckExists(w)
  \/ DiscardAck(w)
  \/ MarkProcessing(w)
  \/ ProcessDevice(w)
  \/ SaveDevice(w)
  \/ NeighborCheck(w)
  \/ NeighborAdmit(w)
  \/ NeighborPut(w)
  \/ MarkProcessed(w)
  \/ Finally(w)

MainStep ==
  \/ AddSeedDevice
  \/ Start
  \/ WaitForCompletion
  \/ ExportInventory
  \/ Stop
  \/ StopJoin

Next ==
  \/ MainStep
  \/ Interrupt
  \/ \E w \in Workers : WorkerStep(w)

Spec == Init /\ [][Next]_vars

\* each started thread keeps running, main() keeps running; an interrupt
\* may never come
FairSpec ==
  /\ Spec
  /\ WF_vars(MainStep)
  /\ \A w \in Workers : WF_vars(WorkerStep(w))

(***************************************************************************)
(* The store under arbitrary saves: every worker holds the device of a     *)
(* Session that succeeded, whatever it is, and saves it with the worker's  *)
(* own SaveDevice step; any number of them may hold the same device.       *)
(***************************************************************************)
\* the saves that succeed before the workers stop taking new Sessions
MaxSaves == 2

SavedHostnames == {H_a, H_b}
SavedIps == {IP_1, IP_2}
SavedPlatforms == {EmptyStr, P_NXOS}

\* the devices a Session can hand to add_device
SavedDevices ==
  {[NoDevice EXCEPT !.hostname = h, !.ip_address = ip, !.platform = p,
                    !.device_type = determine_device_type(p)] :
     h \in SavedHostnames, ip \in SavedIps, p \in SavedPlatforms}

StoreInit ==
  /\ devices = {}
  /\ queue_tbl = {}
  /\ work_queue = <<>>
  /\ unfinished_tasks = 0
  /\ stop_event = FALSE
  /\ stats = [devices_processed |-> 0, devices_discovered |-> 0, active_devices |-> {}]
  /\ pc = [w \in Workers |-> "save"]
  /\ item = [w \in Workers |-> NoItem]
  /\ device \in [Workers -> SavedDevices]
  /\ session_ok = [w \in Workers |-> TRUE]
  /\ neighbors = [w \in Workers |-> <<>>]
  /\ mainpc = "wait"
  /\ stop_calls = 0
  /\ seed = NoItem
  /\ conn = [w \in Workers |-> NoConnection]
  /\ sessions = [h \in AllHosts |-> 0]
  /\ put_log = {}

\* the worker's next Session succeeded with device d
NextSession(w) ==
  /\ pc[w] \in {"nbr", "finally"}
  /\ stats.devices_processed < MaxSaves
  /\ \E d \in SavedDevices : device' = [device EXCEPT ![w] = d]
  /\ Goto(w, "save")
  /\ UNCHANGED <<storeVars, frontierVars, stop_event, stats, item, session_ok,
                 neighbors, mainVars, sessions, put_log, conn>>

StoreNext == \E w \in Workers : SaveDevice(w) \/ NextSession(w)

StoreSpec == StoreInit /\ [][StoreNext]_vars

(***************************************************************************)
(* Admission under arbitrary callers: add_seed_device is called any number *)
(* of times with any seed, while every worker runs the neighbor loop of a  *)
(* Session that succeeded, over whatever neighbors that Session reported.  *)
(***************************************************************************)
\* what the Sessions report: b under two IPs, and c
NeighborLists ==
  { << <<H_b, IP_2>> >>,
    << <<H_b, IP_2>>, <<H_c, IP_3>> >>,
    << <<H_c, IP_3>>, <<H_b, IP_3>> >> }

\* the empty seed, a, and the FQDN of a under a second IP
AdmitSeeds == { <<H_empty, IP_empty>>, <<H_a, IP_1>>, <<<<"A", ".", "x">>, IP_5>> }

AdmitInit ==
  /\ devices = {}
  /\ queue_tbl = {}
  /\ work_queue = <<>>
  /\ unfinished_tasks = 0
  /\ stop_event = FALSE
  /\ stats = [devices_processed |-> 0, devices_discovered |-> 0, active_devices |-> {}]
  /\ pc = [w \in Workers |-> "nbr"]
  /\ item = [w \in Workers |-> NoItem]
  /\ device = [w \in Workers |-> NoDevice]
  /\ session_ok = [w \in Workers |-> TRUE]
  /\ neighbors \in [Workers -> NeighborLists]
  /\ mainpc = "seed"
  /\ stop_calls = 0
  /\ seed = NoItem
  /\ conn = [w \in Workers |-> NoConnection]
  /\ sessions = [h \in AllHosts |-> 0]
  /\ put_log = {}

\* one more call of add_seed_device; a call that raises is the last one
SeedAdmit ==
  /\ mainpc = "seed"
  /\ \E s \in AdmitSeeds : add_seed_device(s, "seed")
  /\ UNCHANGED <<devices, stop_event, workerVars, stop_calls, seed, sessions>>

AdmitNext ==
  \/ SeedAdmit
  \/ \E w \in Workers : NeighborCheck(w) \/ NeighborAdmit(w) \/ NeighborPut(w)

AdmitSpec == AdmitInit /\ [][AdmitNext]_vars

(***************************************************************************)
(* The Queue table under arbitrary callers of its three operations.        *)
(***************************************************************************)
QueueHostnames == {H_a, H_b, H_c}
QueueIps == {IP_1, IP_2, IP_3}

QueueInit ==
  /\ devices = {}
  /\ queue_tbl = {}
  /\ work_queue = <<>>
  /\ unfinished_tasks = 0
  /\ stop_event = FALSE
  /\ stats = [devices_processed |-> 0, devices_discovered |-> 0, active_devices |-> {}]
  /\ pc = [w \in Workers |-> "unstarted"]
  /\ item = [w \in Workers |-> NoItem]
  /\ device = [w \in Workers |-> NoDevice]
  /\ session_ok = [w \in Workers |-> FALSE]
  /\ neighbors = [w \in Workers |-> <<>>]
  /\ mainpc = "seed"
  /\ stop_calls = 0
  /\ seed = NoItem
  /\ conn = [w \in Workers |-> NoConnection]
  /\ sessions = [h \in AllHosts |-> 0]
  /\ put_log = {}

\* a call of add_to_queue that does not raise
CallAddToQueue ==
  /\ \E h \in QueueHostnames, ip \in QueueIps :
       /\ ~add_to_queue_raises(queue_tbl, h, ip)
       /\ queue_tbl' = add_to_queue(queue_tbl, h, ip)
  /\ UNCHANGED <<devices, frontierVars, stop_event, stats, workerVars, mainVars,
                 sessions, put_log>>

CallMarkProcessing ==
  /\ \E h \in QueueHostnames : queue_tbl' = mark_processing(queue_tbl, h)
  /\ UNCHANGED <<devices, frontierVars, stop_event, stats, workerVars, mainVars,
                 sessions, put_log>>

CallMarkProcessed ==
  /\ \E h \in QueueHostnames : queue_tbl' = mark_processed(queue_tbl, h)
  /\ UNCHANGED <<devices, frontierVars, stop_event, stats, workerVars, mainVars,
                 sessions, put_log>>

QueueNext == CallAddToQueue \/ CallMarkProcessing \/ CallMarkProcessed

QueueSpec == QueueInit /\ [][QueueNext]_vars

(***************************************************************************)
(* One NetworkDevice object under arbitrary inputs: built from any         *)
(* hostname (NewDeviceSpec), and given any platform (ClassifySpec).        *)
(***************************************************************************)
\* the parts a hostname or a platform string is put together from, at most
MaxParts == 3

RECURSIVE Concats(_, _)
\* the strings made of at most n parts out of T
Concats(T, n) ==
  IF n = 0 THEN { EmptyStr }
  ELSE Concats(T, n - 1) \cup { a \o b : a \in Concats(T, n - 1), b \in T }

HostnameParts ==
  { <<"A">>, <<"b">>, <<" ">>, <<".">>, <<"(">>, <<")">>,
    <<"(", "S", "e", "r", "i", "a", "l", ":", "x">>, <<" ", "(", "S", "e", "r">>,
    <<"i", "a", "l", ":", ")">> }

HostnameInputs == Concats(HostnameParts, MaxParts)

PlatformParts ==
  { <<"C", "A", "T">>, <<"c", "9">>, <<"I", "O", "S">>, <<"n", "e", "x", "u", "s">>,
    <<"L", "i", "n", "u", "x">>, <<" ">>, <<"x">>, <<"X", "E">>, <<"-", "X", "E">> }

PlatformInputs == Concats(PlatformParts, MaxParts)

\* the worker that owns the object
Owner == CHOOSE w \in Workers : \A v \in Workers : w <= v

\* a connection as connect() leaves it when the hostname answers
OpenConnection ==
  [NoConnection EXCEPT !.connection = "open", !.device_type = T_cisco_ios,
                       !.log = <<"hostname_ok">>]

ObjectInit(d, c) ==
  /\ devices = {}
  /\ queue_tbl = {}
  /\ work_queue = <<>>
  /\ unfinished_tasks = 0
  /\ stop_event = FALSE
  /\ stats = [devices_processed |-> 0, devices_discovered |-> 0, active_devices |-> {}]
  /\ pc = [w \in Workers |-> "session"]
  /\ item = [w \in Workers |-> NoItem]
  /\ device = [w \in Workers |-> d]
  /\ session_ok = [w \in Workers |-> FALSE]
  /\ neighbors = [w \in Workers |-> <<>>]
  /\ mainpc = "wait"
  /\ stop_calls = 0
  /\ seed = NoItem
  /\ conn = [w \in Workers |-> c]
  /\ sessions = [h \in AllHosts |-> 0]
  /\ put_log = {}

\* crawler.py line 103: NetworkDevice(hostname, ip_address)
NewDevice ==
  /\ device[Owner] = NoDevice
  /\ \E h \in HostnameInputs :
       /\ item' = [item EXCEPT ![Owner] = <<h, IP_1>>]
       /\ device' = [device EXCEPT ![Owner] = NetworkDevice(h, IP_1)]
  /\ UNCHANGED <<storeVars, frontierVars, stop_event, stats, pc, session_ok,
                 neighbors, mainVars, sessions, put_log, conn>>

NewDeviceSpec == ObjectInit(NoDevice, NoConnection) /\ [][NewDevice]_vars

\* process_device lines 117-125 with a version record that has the
\* platform p: update_from_show_version, then the transport's device type
ShowVersion ==
  /\ device[Owner].platform = None
  /\ \E p \in PlatformInputs :
       LET d1 == update_from_show_version(device[Owner], [platform |-> p])
       IN  /\ device' = [device EXCEPT ![Owner] = d1]
           /\ conn' = [conn EXCEPT ![Owner].device_type =
                                      transport_device_type(d1.platform)]
  /\ UNCHANGED <<storeVars, frontierVars, stop_event, stats, pc, item, session_ok,
                 neighbors, mainVars, sessions, put_log>>

ClassifySpec ==
  ObjectInit(NetworkDevice(H_a, IP_1), OpenConnection) /\ [][ShowVersion]_vars

(***************************************************************************)
(* One DeviceConnection object, step by step: process_device on a fresh    *)
(* NetworkDevice against a transport that answers as it likes.             *)
(***************************************************************************)
\* the number of attempts, config['connection']['retry_attempts'], bounded
retry_attempts == 2

\* the (hostname, ip_address) pairs the device is built from: the IP
\* differs from the hostname, equals it, or both are empty
SessionItems == { <<H_a, IP_1>>, <<H_a, H_a>>, <<H_empty, IP_empty>> }

SessionInit ==
  /\ devices = {}
  /\ queue_tbl = {}
  /\ work_queue = <<>>
  /\ unfinished_tasks = 0
  /\ stop_event = FALSE
  /\ stats = [devices_processed |-> 0, devices_discovered |-> 0, active_devices |-> {}]
  /\ pc = [w \in Workers |-> IF w = Owner THEN "connect" ELSE "unstarted"]
  /\ \E it \in SessionItems :
       /\ item = [w \in Workers |-> IF w = Owner THEN it ELSE NoItem]
       /\ device = [w \in Workers |->
                      IF w = Owner THEN NetworkDevice(it[1], it[2]) ELSE NoDevice]
  /\ session_ok = [w \in Workers |-> FALSE]
  /\ neighbors = [w \in Workers |-> <<>>]
  /\ mainpc = "wait"
  /\ stop_calls = 0
  /\ seed = NoItem
  /\ conn = [w \in Workers |-> NoConnection]
  /\ sessions = [h \in AllHosts |-> 0]
  /\ put_log = {}

sessionFrame == <<storeVars, frontierVars, stop_event, stats, item, neighbors,
                  mainVars, sessions, put_log>>

\* connect lines 44-61 and 64: one pass of the for loop up to the outcome
\* of ConnectHandler(host = hostname), with device_type 'cisco_ios'
ConnectHostname(w) ==
  /\ pc[w] = "connect"
  /\ \E opened \in BOOLEAN :
       IF opened
       THEN /\ conn' = [conn EXCEPT ![w].connection = "open",
                                    ![w].device_type = T_cisco_ios,
                                    ![w].log = Append(@, "hostname_ok")]
            /\ Goto(w, "version")
       ELSE /\ conn' = [conn EXCEPT ![w].log = Append(@, "hostname_failed")]
            /\ Goto(w, IF device[w].ip_address # device[w].hostname
                       THEN "try_ip" ELSE "attempt_failed")
  /\ UNCHANGED <<sessionFrame, device, session_ok>>

\* connect lines 65-68: ConnectHandler(host = ip_address)
ConnectIp(w) ==
  /\ pc[w] = "try_ip"
  /\ \E opened \in BOOLEAN :
       IF opened
       THEN /\ conn' = [conn EXCEPT ![w].connection = "open",
                                    ![w].device_type = T_cisco_ios,
                                    ![w].log = Append(@, "ip_ok")]
            /\ Goto(w, "version")
       ELSE /\ conn' = [conn EXCEPT ![w].log = Append(@, "ip_failed")]
            /\ Goto(w, "attempt_failed")
  /\ UNCHANGED <<sessionFrame, device, session_ok>>

\* a connect() that sleeps after its last attempt as well
AttemptFailed_SleepsAlways(w) ==
  /\ pc[w] = "attempt_failed"
  /\ IF conn[w].attempt < retry_attempts - 1
     THEN /\ conn' = [conn EXCEPT ![w].attempt = @ + 1,
                                  ![w].log = Append(@, "sleep")]
          /\ Goto(w, "connect")
     ELSE /\ conn' = [conn EXCEPT ![w].log = Append(@, "sleep")]
          /\ Goto(w, "returned")
  /\ UNCHANGED <<sessionFrame, device, session_ok>>

\* connect lines 72-78: sleep and go round again, or return False, which
\* process_device (line 106) returns before its try block
AttemptFailed(w) ==
  /\ pc[w] = "attempt_failed"
  /\ IF conn[w].attempt < retry_attempts - 1
     THEN /\ conn' = [conn EXCEPT ![w].attempt = @ + 1,
                                  ![w].log = Append(@, "sleep")]
          /\ Goto(w, "connect")
     ELSE /\ UNCHANGED conn
          /\ Goto(w, "returned")
  /\ UNCHANGED <<sessionFrame, device, session_ok>>

\* process_device lines 111-125: `show version`, its parse, the update of
\* the device and of the transport's device type
Identify(w) ==
  /\ pc[w] = "version"
  /\ \E env \in Behaviours(device[w].hostname) :
       IF ~Truthy(env.version_output)
       THEN /\ Goto(w, "disconnect")
            /\ UNCHANGED <<device, conn>>
       ELSE LET d1 == update_from_show_version(device[w], parse_show_version(device[w], env))
            IN  /\ device' = [device EXCEPT ![w] = d1]
                /\ conn' = [conn EXCEPT ![w].device_type = transport_device_type(d1.platform)]
                /\ Goto(w, "inventory")
  /\ UNCHANGED <<sessionFrame, session_ok>>

\* process_device lines 128-131: `show inventory`
Inventory(w) ==
  /\ pc[w] = "inventory"
  /\ \E env \in Behaviours(device[w].hostname) :
       device' = [device EXCEPT ![w] =
                    IF Truthy(env.inventory_output)
                    THEN update_from_show_inventory(@, parse_show_inventory(@, env))
                    ELSE @]
  /\ Goto(w, "cdp")
  /\ UNCHANGED <<sessionFrame, session_ok, conn>>

\* process_device lines 134-148: `show cdp neighbors detail`, return True
CdpNeighbors(w) ==
  /\ pc[w] = "cdp"
  /\ \E env \in Behaviours(device[w].hostname) :
       LET cdp == parse_cdp_neighbors(device[w], env)
       IN  device' = [device EXCEPT ![w] =
                        IF Truthy(env.cdp_output)
                        THEN AdoptIp(update_from_cdp_neighbors(@, cdp), cdp)
                        ELSE @]
  /\ session_ok' = [session_ok EXCEPT ![w] = TRUE]
  /\ Goto(w, "disconnect")
  /\ UNCHANGED <<sessionFrame, conn>>

\* process_device lines 150-152: a statement of the try block raised.
\* execute_command and the parsers catch what they raise themselves; what
\* is left is whatever the transport object or the interpreter raises.
SessionRaises(w) ==
  /\ pc[w] \in {"version", "inventory", "cdp"}
  /\ Goto(w, "disconnect")
  /\ UNCHANGED <<sessionFrame, device, session_ok, conn>>

\* a finally clause that disconnects only after a Session that succeeded
Disconnect_OnSuccessOnly(w) ==
  /\ pc[w] = "disconnect"
  /\ IF conn[w].connection # "none" /\ session_ok[w]
     THEN conn' = [conn EXCEPT ![w].connection = "closed",
                               ![w].log = Append(@, "disconnect")]
     ELSE UNCHANGED conn
  /\ Goto(w, "returned")
  /\ UNCHANGED <<sessionFrame, device, session_ok>>

\* process_device lines 153-154 and disconnect(): the transport's
\* disconnect() is called if there is a connection object
Disconnect(w) ==
  /\ pc[w] = "disconnect"
  /\ IF conn[w].connection # "none"
     THEN conn' = [conn EXCEPT ![w].connection = "closed",
                               ![w].log = Append(@, "disconnect")]
     ELSE UNCHANGED conn
  /\ Goto(w, "returned")
  /\ UNCHANGED <<sessionFrame, device, session_ok>>

SessionNext ==
  \E w \in Workers :
    \/ ConnectHostname(w)
    \/ ConnectIp(w)
    \/ AttemptFailed(w)
    \/ Identify(w)
    \/ Inventory(w)
    \/ CdpNeighbors(w)
    \/ SessionRaises(w)
    \/ Disconnect(w)

SessionSpec == SessionInit /\ [][SessionNext]_vars

(***************************************************************************)
(* The claims.                                                             *)
(***************************************************************************)
\* wait_for_completion returns in this step
WaitReturns == mainpc = "wait" /\ mainpc' = "export"

RowsOf(h) == {d \in devices : d.hostname = h}

\* C1: at the moment wait_for_completion returns, every infrastructure
\* device reachable from the seed (seed included) has exactly one row in
\* the Devices table.
C1_InventoryComplete ==
  [][WaitReturns =>
       \A h \in Reachable(seed[1]) : Cardinality(RowsOf(h)) = 1]_vars

\* C2: no device ever gets a second Session, and when wait_for_completion
\* returns exactly one Session has been run for every reachable
\* infrastructure device (3 for the chain a -> b -> c -> a) and none for
\* any other.
C2_OneSessionEach ==
  /\ [](\A h \in AllHosts : sessions[h] <= 1)
  /\ [][WaitReturns =>
          \A h \in AllHosts :
            sessions[h] = IF h \in Reachable(seed[1]) THEN 1 ELSE 0]_vars

UniqueDevices ==
  \A d1, d2 \in devices :
    (d1.hostname = d2.hostname \/ d1.ip_address = d2.ip_address) => d1 = d2

\* C3: no two rows of the Devices table share a hostname or an IP address,
\* and a row once saved stays as it is: a later save of the same device
\* neither replaces nor changes it.
C3_DevicesUnique ==
  /\ [] UniqueDevices
  /\ [][\A d \in devices : d \in devices']_vars

\* C3 witness: two workers hold the same host, the first one's row is in the
\* table and the save of the second, which differs from it, was refused.
C3_Witness ==
  \E w1, w2 \in Workers :
    /\ w1 # w2
    /\ pc[w1] = "nbr" /\ pc[w2] = "finally"
    /\ device[w1].hostname = device[w2].hostname
    /\ device[w1].ip_address = device[w2].ip_address
    /\ device[w1] # device[w2]
    /\ to_dict(device[w1]) \in devices
    /\ to_dict(device[w2]) \notin devices

\* the Store's rows that make a taken item "processed or in flight"
ProcessedOrInFlight(hostname, ip_address) ==
  \/ \E d \in devices : d.hostname = hostname \/ d.ip_address = ip_address
  \/ \E r \in queue_tbl :
       /\ r.hostname = hostname \/ r.ip_address = ip_address
       /\ r.is_processing \/ r.is_processed

\* C4: a worker discards a taken item only when the Store holds a Device
\* row for it or a QueueEntry that is_processing or is_processed; an item
\* whose QueueEntry is merely pending goes on to mark_processing.
C4_PendingNotDiscarded ==
  [][\A w \in Workers :
       (pc[w] = "check" /\ pc'[w] # "check") =>
         /\ pc'[w] = "discard" => ProcessedOrInFlight(item[w][1], item[w][2])
         /\ ~ProcessedOrInFlight(item[w][1], item[w][2]) => pc'[w] = "mark"]_vars

\* a worker that has taken an item and still works on it (its Store and
\* Session work is not over)
InFlight(w) ==
  pc[w] \in {"check", "discard", "mark", "session", "save", "nbr", "admit",
             "put", "processed"}

\* C5: wait_for_completion returns only when the Frontier is empty and no
\* worker is between taking an item and finishing it.
C5_ReturnsWhenDrained ==
  [][WaitReturns =>
       work_queue = <<>> /\ \A w \in Workers : ~InFlight(w)]_vars

Left(w) == pc[w] \in {"exited", "dead"}

\* C6: no worker thread leaves its loop while the stop signal is unset.
C6_WorkersSurvive ==
  [][\A w \in Workers : (~Left(w) /\ Left(w)') => stop_event]_vars

\* C7: under fair scheduling wait_for_completion does not block forever:
\* whenever main() waits, the wait ends.
C7_WaitEnds == (mainpc = "wait") ~> (mainpc # "wait")

\* C7 witness: wait_for_completion has returned for a seed that refused
\* every connection attempt.
C7_Witness ==
  /\ mainpc = "export"
  /\ seed = <<H_empty, IP_empty>>
  /\ sessions[H_empty] = 1
  /\ devices = {}

\* C8: once the stop signal is set, a worker that observes it takes nothing
\* more from the Frontier, a Session in flight still runs to its end, every
\* worker thread terminates, and each call of stop(), the second included,
\* returns.
C8_StopStops ==
  /\ [][\A w \in Workers :
          (stop_event /\ pc[w] = "loop") => pc'[w] \in {"loop", "exited"}]_vars
  /\ [][\A w \in Workers :
          (stop_event /\ pc[w] = "session") => pc'[w] \in {"session", "save", "processed"}]_vars
  /\ stop_event ~> (\A w \in Workers : Terminated(w))
  /\ (mainpc = "join") ~> (mainpc = "done")

\* C8 witness: stop() has returned twice, after a worker that ran a Session
\* left its loop on the stop signal.
C8_Witness ==
  /\ mainpc = "done"
  /\ stop_calls = 2
  /\ sessions[H_empty] = 1
  /\ \E w \in Workers : pc[w] = "exited"

QueueKeys(q) == {<<r.hostname, r.ip_address>> : r \in q}

\* C9: a Session that returns failure inserts nothing, and the worker then
\* inserts no Device row, admits no QueueEntry and puts nothing on the
\* Frontier, and leaves the item's QueueEntry with is_processed = true and
\* is_processing = false.
C9_FailureIsTerminal ==
  /\ [][\A w \in Workers :
          (pc[w] = "session" /\ pc'[w] = "processed") =>
            /\ ~session_ok'[w]
            /\ UNCHANGED <<devices, queue_tbl, work_queue>>]_vars
  /\ [][\A w \in Workers :
          (pc[w] = "processed" /\ ~session_ok[w] /\ pc'[w] # "processed") =>
            /\ pc'[w] = "finally"
            /\ UNCHANGED <<devices, work_queue>>
            /\ QueueKeys(queue_tbl') = QueueKeys(queue_tbl)
            /\ \E r \in queue_tbl' : r.hostname = item[w][1]
            /\ \A r \in queue_tbl' :
                 r.hostname = item[w][1] => r.is_processed /\ ~r.is_processing]_vars

\* C9 witness: a worker has finished an item whose Session failed.
C9_Witness ==
  \E w \in Workers :
    /\ pc[w] = "finally"
    /\ item[w] = <<H_empty, IP_empty>>
    /\ sessions[H_empty] = 1
    /\ ~session_ok[w]
    /\ devices = {}
    /\ queue_tbl = {[QueueRow(H_empty, IP_empty) EXCEPT !.is_processed = TRUE]}

\* the Store holds a QueueEntry or a Device row for the key
HasWitness(k) ==
  \/ \E r \in queue_tbl : r.hostname = k[1] /\ r.ip_address = k[2]
  \/ \E d \in devices : d.hostname = k[1] /\ d.ip_address = k[2]

\* C10: for every pair ever put on the Frontier, the Store holds a
\* QueueEntry or a Device row for it from the put on.
C10_AdmissionWitness == \A k \in put_log : HasWitness(k)

\* C10 witness: a neighbor admitted by a worker is on the Frontier.
C10_Witness ==
  /\ <<H_b, IP_2>> \in put_log
  /\ \E i \in 1..Len(work_queue) : work_queue[i] = <<H_b, IP_2>>

C12_QueueUnique ==
  /\ \A r1, r2 \in queue_tbl :
       (\/ normalize_hostname(r1.hostname) = normalize_hostname(r2.hostname)
        \/ r1.ip_address = r2.ip_address) => r1 = r2
  /\ mainpc # "failed"

\* C13: every hostname in the Queue table, in the Devices table and on the
\* Frontier equals its own normalization.
C13_HostnamesNormalized ==
  /\ \A r \in queue_tbl : normalize_hostname(r.hostname) = r.hostname
  /\ \A d \in devices : normalize_hostname(d.hostname) = d.hostname
  /\ \A i \in 1..Len(work_queue) :
       normalize_hostname(work_queue[i][1]) = work_queue[i][1]

\* C14: no entry of the Queue table has is_processing and is_processed
\* both true, whatever calls of add_to_queue, mark_processing and
\* mark_processed came before.
C14_NotBothFlags == \A r \in queue_tbl : ~(r.is_processing /\ r.is_processed)

\* the neighbors reported to the device that are infrastructure and have
\* a management IP, as the pairs of their normalized hostname and IP
ReportedAdmissible(dev) ==
  { <<normalize_hostname(dev.cdp_neighbors[i].hostname), dev.cdp_neighbors[i].ip_address>> :
      i \in { j \in 1..Len(dev.cdp_neighbors) :
                /\ dev.cdp_neighbors[j].ip_address # EmptyStr
                /\ determine_device_type(dev.cdp_neighbors[j].platform)
                     \notin {T_excluded, T_unknown} } }

\* a Device row or a QueueEntry has the hostname or the IP of the key
StoreMatches(devs, q, k) ==
  \E r \in devs \cup q : r.hostname = k[1] \/ r.ip_address = k[2]

\* C15: after a successful Session a reported neighbor is admitted iff it
\* is infrastructure, has a management IP and the Store has no row with
\* its normalized hostname or IP: a worker inserts a QueueEntry only for
\* such a neighbor, skips a neighbor only when the Store has a matching
\* row, and when it leaves its neighbor loop every admissible neighbor
\* that was reported has a matching row.
C15_AdmittedIff ==
  [][\A w \in Workers :
       /\ (pc[w] = "admit" /\ pc'[w] = "put") =>
            /\ Head(neighbors[w]) \in ReportedAdmissible(device[w])
            /\ ~StoreMatches(devices, queue_tbl, Head(neighbors[w]))
            /\ \E r \in queue_tbl' : /\ r.hostname = Head(neighbors[w])[1]
                                     /\ r.ip_address = Head(neighbors[w])[2]
       /\ (pc[w] = "nbr" /\ pc'[w] = "nbr" /\ neighbors'[w] # neighbors[w]) =>
            StoreMatches(devices, queue_tbl, Head(neighbors[w]))
       /\ (pc[w] \in {"nbr", "admit"} /\ pc'[w] \in {"processed", "finally"}) =>
            \A k \in ReportedAdmissible(device[w]) :
              StoreMatches(devices', queue_tbl', k)]_vars

\* the include and the exclude patterns that are substrings of the
\* platform, case ignored
IncludeMatches(platform) ==
  {i \in 1..Len(include_platforms) : Contains(Lower(platform), Lower(include_platforms[i]))}

ExcludeMatches(platform) ==
  {i \in 1..Len(exclude_platforms) : Contains(Lower(platform), Lower(exclude_platforms[i]))}

\* the platform of the device has been set
Classified(w) == device[w].platform # None

\* C16 as stated: a platform that matches an include pattern and no
\* exclude pattern gets that include pattern as its device type.
C16_IncludePatternAssigned ==
  \A w \in Workers :
    (Classified(w) /\ ExcludeMatches(device[w].platform) = {}) =>
       \A i \in IncludeMatches(device[w].platform) :
         device[w].device_type = include_platforms[i]

\* the platform names one of the Cisco families
NamesCiscoFamily(platform) ==
  \/ Contains(Lower(platform), <<"n", "x", "-", "o", "s">>)
  \/ Contains(Lower(platform), <<"n", "e", "x", "u", "s">>)
  \/ Contains(Lower(platform), <<"i", "o", "s">>)

\* C16 amended: a platform that matches an include pattern and no exclude
\* pattern and contains none of nx-os, nexus and ios gets the first include
\* pattern of the configuration that matches it, as written there.
C16_FirstIncludePattern ==
  \A w \in Workers :
    (/\ Classified(w)
     /\ ExcludeMatches(device[w].platform) = {}
     /\ IncludeMatches(device[w].platform) # {}
     /\ ~NamesCiscoFamily(device[w].platform)) =>
       \E i \in IncludeMatches(device[w].platform) :
         /\ \A k \in IncludeMatches(device[w].platform) : i <= k
         /\ device[w].device_type = include_platforms[i]

\* C16 witness: a platform that matches only the second include pattern,
\* in another case than the pattern has, is classified as that pattern.
C16_Witness ==
  /\ device[Owner].platform = <<"x", "c", "9">>
  /\ device[Owner].device_type = <<"C", "9">>

\* C17: the hostname of a NetworkDevice is a fixed point of the
\* normalization: normalizing a normalized hostname changes nothing.
C17_NormalizeIdempotent ==
  \A w \in Workers :
    device[w] # NoDevice =>
      /\ device[w].hostname = normalize_hostname(item[w][1])
      /\ normalize_hostname(device[w].hostname) = device[w].hostname

\* C17 witness: a hostname with a capital and a serial annotation has been
\* normalized.
C17_Witness ==
  /\ item[Owner][1] = <<"A", " ", "(", "S", "e", "r", "i", "a", "l", ":", ")">>
  /\ device[Owner].hostname = <<"a">>

\* no worker is between a take and the end of that iteration of its loop
NoItemInHand == \A w \in Workers : item[w] = NoItem

\* C18: every item taken is acknowledged once and a timed-out take is not
\* acknowledged: the step that ends an iteration without an item leaves the
\* unfinished count alone, and whenever no worker holds an item the count is
\* the number of items on the Frontier (the puts minus the items handled).
C18_AckedOnce ==
  /\ [](NoItemInHand => unfinished_tasks = Len(work_queue))
  /\ [][\A w \in Workers :
          (pc[w] = "finally" /\ pc'[w] # "finally" /\ item[w] = NoItem)
             => unfinished_tasks' = unfinished_tasks]_vars

\* the device object a worker is about to run a Session with (line 103)
SessionDevice(w) == NetworkDevice(item[w][1], item[w][2])

\* the connection succeeds and `show version` returns output
Answers(env) == env.connect /\ env.version_output \notin {None, EmptyStr}

\* C19: a Session whose connection succeeds and whose `show version`
\* output parses to zero records returns failure, and no row is saved from
\* it (a row saved from such a Session has the empty platform).
C19_NoVersionRecordFails ==
  /\ \A w \in Workers :
       pc[w] = "session" =>
         \A env \in Behaviours(SessionDevice(w).hostname) :
           (Answers(env) /\ parse_show_version(SessionDevice(w), env) = EmptyDict)
              => ~process_device(SessionDevice(w), env).ok
  /\ \A d \in devices : d.platform # EmptyStr

\* C20: a Session that got `show version` output returns success whatever
\* happens to `show inventory` and `show cdp neighbors detail`: without
\* inventory output or records the serial number stays empty, without CDP
\* output or records the device has no neighbors to admit, and a worker
\* whose device has none leaves the Queue table and the Frontier alone.
C20_OptionalPhases ==
  /\ [](\A w \in Workers :
          pc[w] = "session" =>
            \A env \in Behaviours(SessionDevice(w).hostname) :
              Answers(env) =>
                LET r == process_device(SessionDevice(w), env)
                IN  /\ r.ok
                    /\ (env.inventory_output \in {None, EmptyStr} \/ ~env.templates)
                          => r.device.serial_number \in {None, EmptyStr}
                    /\ (env.cdp_output \in {None, EmptyStr} \/ ~env.templates)
                          => get_cdp_neighbors(r.device) = <<>>)
  /\ [][\A w \in Workers :
          (pc[w] \in {"save", "nbr"} /\ pc'[w] # pc[w] /\ device[w].cdp_neighbors = <<>>)
             => /\ neighbors'[w] = <<>>
                /\ UNCHANGED <<queue_tbl, work_queue>>]_vars

\* C20 witness: a Session without inventory and CDP output succeeded, its
\* device was saved without a serial number and nothing was enqueued.
C20_Witness ==
  \E w \in Workers :
    /\ pc[w] = "processed"
    /\ session_ok[w]
    /\ device[w].platform = EmptyStr
    /\ device[w].serial_number = None
    /\ ~device[w].has_cdp
    /\ to_dict(device[w]) \in devices
    /\ put_log = { <<H_empty, IP_empty>> }

\* how often the event is in the log of the worker's DeviceConnection
Count(w, e) == Cardinality({i \in 1..Len(conn[w].log) : conn[w].log[i] = e})

\* the transport connections the object opened
Opened(w) == Count(w, "hostname_ok") + Count(w, "ip_ok")

\* C21: a Session that opened a connection calls disconnect on it exactly
\* once before process_device returns, whatever the way out; a Session
\* that opened none calls it never; no connection is open afterwards.
C21_DisconnectedOnce ==
  \A w \in Workers :
    /\ Count(w, "disconnect") <= Opened(w)
    /\ Opened(w) <= 1
    /\ pc[w] = "returned" =>
         /\ Count(w, "disconnect") = Opened(w)
         /\ conn[w].connection # "open"

\* C21 witness: a Session that connected by IP and ended in its except
\* clause or on empty `show version` output has disconnected once.
C21_Witness ==
  /\ pc[Owner] = "returned"
  /\ ~session_ok[Owner]
  /\ device[Owner].platform = None
  /\ conn[Owner].connection = "closed"
  /\ conn[Owner].log = <<"hostname_failed", "ip_ok", "disconnect">>

IsConnectEvent(e) == e # "disconnect"

\* what connect() did, in order
ConnectLog(w) == SelectSeq(conn[w].log, IsConnectEvent)

\* connect() has returned False
ConnectReturnedFalse(w) == pc[w] = "returned" /\ conn[w].connection = "none"

\* C22: connect makes at most retry_attempts attempts; each attempt tries
\* the hostname first and the IP only, and always, after the hostname
\* failed with an IP that differs from it (the device's hostname and IP as
\* the Session began with them); the first try that opens a
\* connection is the last one; it returns False only after retry_attempts
\* failed attempts; it sleeps after every failed attempt but the last.
C22_ConnectRetries ==
  \A w \in Workers :
    LET L == ConnectLog(w)
        differ == item[w][2] # normalize_hostname(item[w][1])
    IN  /\ Count(w, "hostname_ok") + Count(w, "hostname_failed") <= retry_attempts
        /\ L # <<>> => L[1] \in {"hostname_ok", "hostname_failed"}
        /\ \A i \in 1..Len(L) :
             /\ (L[i] \in {"hostname_ok", "hostname_failed"} /\ i > 1)
                  => L[i - 1] = "sleep"
             /\ L[i] \in {"ip_ok", "ip_failed"}
                  => i > 1 /\ L[i - 1] = "hostname_failed" /\ differ
             /\ L[i] = "hostname_failed" /\ differ
                  => IF i < Len(L) THEN L[i + 1] \in {"ip_ok", "ip_failed"}
                     ELSE pc[w] = "try_ip"
             /\ L[i] \in {"hostname_ok", "ip_ok"}
                  => i = Len(L) /\ conn[w].connection # "none"
             /\ L[i] = "sleep"
                  => /\ i > 1 /\ L[i - 1] \in {"hostname_failed", "ip_failed"}
                     /\ IF i < Len(L) THEN L[i + 1] \in {"hostname_ok", "hostname_failed"}
                        ELSE pc[w] = "connect"
        /\ ConnectReturnedFalse(w) =>
             /\ Count(w, "hostname_failed") = retry_attempts
             /\ Count(w, "sleep") = retry_attempts - 1
             /\ Opened(w) = 0

\* C22 witness: connect() has returned False after retry_attempts attempts
\* that each tried the hostname and the IP.
C22_Witness ==
  /\ ConnectReturnedFalse(Owner)
  /\ Count(Owner, "hostname_failed") = retry_attempts
  /\ Count(Owner, "ip_failed") = retry_attempts
  /\ Count(Owner, "sleep") = retry_attempts - 1

\* the transport device type that goes with a classified device type
TransportFor(device_type) ==
  IF device_type = T_cisco_nxos THEN T_cisco_nxos
  ELSE IF device_type = T_cisco_xe THEN T_cisco_xe
  ELSE T_cisco_ios

C24_PlatformIdentified ==
  /\ \A w \in Workers :
       pc[w] = "session" =>
         \A env \in Behaviours(SessionDevice(w).hostname) :
           (Answers(env) /\ env.templates) =>
              LET d == process_device(SessionDevice(w), env).device
              IN  /\ d.platform = env.version_rec.platform
                  /\ d.device_type = determine_device_type(env.version_rec.platform)
  /\ \A d \in devices :
       /\ d.platform = PlatformOf(d.hostname)
       /\ d.device_type = determine_device_type(PlatformOf(d.hostname))

\* the hostnames of the items between mark_processing and mark_processed
BeingProcessed ==
  { item[w][1] : w \in { v \in Workers :
      pc[v] \in {"session", "save", "nbr", "admit", "put", "processed"} } }

\* C25: the set of active devices is the set of hosts some worker is
\* between mark_processing and mark_processed for; it is empty whenever no
\* worker holds an item; devices_processed never decreases.
C25_ActiveSetExact ==
  /\ [](stats.active_devices = BeingProcessed)
  /\ [](NoItemInHand => stats.active_devices = {})
  /\ [][stats'.devices_processed >= stats.devices_processed]_vars

====
